---------------------------- MODULE Spec2Model ----------------------------
(***************************************************************************)
(* A model of the command resolution and session engine of cli.h: the      *)
(* menu/command tree, the CmdHandler handles, the typed argument binder,   *)
(* CliSession::Feed, help and completion.                                  *)
(*                                                                         *)
(* A std::string is a sequence of one-character strings, so that prefix    *)
(* tests, trimming and tokenizing are computed and not assumed.            *)
(***************************************************************************)
EXTENDS Naturals, Sequences, FiniteSets

(***************************************************************************)
(* Bounds of the model.                                                    *)
(***************************************************************************)
\* operations in one behaviour
MaxSteps == 3
\* sessions that may be constructed (CliSession's constructor)
MaxSessions == 2
\* the historySize each session is constructed with
HistorySize == 2
\* the lines a History taken alone records
MaxLog == 4
\* the calls of Previous in a row
MaxPrev == 4

None == "none"

(***************************************************************************)
(* Strings.                                                                *)
(***************************************************************************)
\* the characters the model's lines are made of, in ASCII order
Chars == <<" ", "1", "2", "a", "c", "e", "f", "g", "h", "i", "l", "n", "o",
           "p", "s", "t", "w", "x">>

CharCode(ch) == CHOOSE i \in 1..Len(Chars) : Chars[i] = ch

IsSpace(ch) == ch = " "

IsDigit(ch) == ch \in {"1", "2"}

\* a.rfind(b, 0) == 0: a starts with b
StartsWith(a, b) ==
    /\ Len(b) <= Len(a)
    /\ SubSeq(a, 1, Len(b)) = b

RECURSIVE TrimLeft(_)
\* s.erase(s.begin(), find_if(s.begin(), s.end(), !isspace))
TrimLeft(s) ==
    IF s = <<>> THEN <<>>
    ELSE IF IsSpace(Head(s)) THEN TrimLeft(Tail(s))
    ELSE s

RECURSIVE StrLess(_, _)
\* operator< of std::string: lexicographic on the character codes
StrLess(a, b) ==
    IF b = <<>> THEN FALSE
    ELSE IF a = <<>> THEN TRUE
    ELSE IF Head(a) = Head(b) THEN StrLess(Tail(a), Tail(b))
    ELSE CharCode(Head(a)) < CharCode(Head(b))

RECURSIVE SplitFrom(_, _, _)
\* the tokens of s from its start, cur being the token read so far
SplitFrom(s, cur, acc) ==
    IF s = <<>> THEN (IF cur = <<>> THEN acc ELSE Append(acc, cur))
    ELSE IF IsSpace(Head(s))
         THEN SplitFrom(Tail(s), <<>>, IF cur = <<>> THEN acc ELSE Append(acc, cur))
         ELSE SplitFrom(Tail(s), Append(cur, Head(s)), acc)

\* detail::split: the whitespace-separated tokens of a line
Split(s) == SplitFrom(s, <<>>, <<>>)

RECURSIVE IntOf(_, _)
\* the value of a string of digits
IntOf(tok, acc) ==
    IF tok = <<>> THEN acc
    ELSE IntOf(Tail(tok), 10 * acc + (CharCode(Head(tok)) + 1 - CharCode("1")))

\* detail::from_string<T>: the value, or a failure (std::bad_cast)
FromString(type, tok) ==
    IF type = "int"
    THEN IF tok # <<>> /\ \A i \in 1..Len(tok) : IsDigit(tok[i])
         THEN [ok |-> TRUE, val |-> <<IntOf(tok, 0)>>]
         ELSE [ok |-> FALSE, val |-> <<>>]
    ELSE [ok |-> TRUE, val |-> tok]

(***************************************************************************)
(* The commands of the application: what each was constructed with.        *)
(***************************************************************************)
n_cli == <<"c", "l", "i">>
n_ping == <<"p", "i", "n", "g">>
n_set == <<"s", "e", "t">>
n_cfg == <<"c", "f", "g">>
n_net == <<"n", "e", "t">>
n_show == <<"s", "h", "o", "w">>
n_help == <<"h", "e", "l", "p">>
n_exit == <<"e", "x", "i", "t">>

\* kind: a Menu, a VariadicFunctionCommand ("fixed") or a FreeformCommand
CmdTable ==
    [ root   |-> [name |-> n_cli,  kind |-> "menu",     params |-> <<>>],
      ping   |-> [name |-> n_ping, kind |-> "fixed",    params |-> <<>>],
      setI   |-> [name |-> n_set,  kind |-> "fixed",    params |-> <<"int">>],
      setS   |-> [name |-> n_set,  kind |-> "fixed",    params |-> <<"string">>],
      setF   |-> [name |-> n_set,  kind |-> "freeform", params |-> <<>>],
      cfg    |-> [name |-> n_cfg,  kind |-> "menu",     params |-> <<>>],
      show   |-> [name |-> n_show, kind |-> "fixed",    params |-> <<>>],
      net    |-> [name |-> n_net,  kind |-> "menu",     params |-> <<>>],
      nshow  |-> [name |-> n_show, kind |-> "fixed",    params |-> <<>>],
      chelp  |-> [name |-> n_help, kind |-> "fixed",    params |-> <<>>],
      ccli   |-> [name |-> n_cli,  kind |-> "fixed",    params |-> <<>>],
      global |-> [name |-> <<>>,   kind |-> "menu",     params |-> <<>>],
      help   |-> [name |-> n_help, kind |-> "fixed",    params |-> <<>>],
      exit   |-> [name |-> n_exit, kind |-> "fixed",    params |-> <<>>] ]

Ids == DOMAIN CmdTable

Name(c) == CmdTable[c].name

Kind(c) == CmdTable[c].kind

Params(c) == CmdTable[c].params

Menus == {c \in Ids : Kind(c) = "menu"}

\* the commands of a session's global-scope menu
GlobalIds == {"global", "help", "exit"}

\* the commands of the tree the Cli owns
TreeIds == Ids \ GlobalIds

\* the handlers of the application that may raise
Throwers == {"ping", "setI", "setF", "ccli"}

\* what a handler does when it is called: return, or raise
Outcomes == {"ok", "std", "bad_cast", "other"}

\* the outcomes that tell runs of a line apart: a command is only ever
\* executed through a token equal to its name, so a line naming none of the
\* handlers that may raise runs the same way whatever they would do
OutcomesOf(toks) ==
    IF \E i \in DOMAIN toks, c \in Throwers : toks[i] = Name(c)
    THEN Outcomes
    ELSE {"ok"}


(***************************************************************************)
(* Building the tree: Menu::Insert, and the handle it returns.             *)
(***************************************************************************)
EmptyTree ==
    [cmds |-> [m \in Menus |-> <<>>], parent |-> [m \in Menus |-> None]]

\* Menu::Insert(cmd) and Menu::Insert(menu) on menu m of tree t
Insert(t, m, c) ==
    [cmds   |-> [t.cmds EXCEPT ![m] = Append(@, c)],
     parent |-> IF Kind(c) = "menu" THEN [t.parent EXCEPT ![c] = m]
                ELSE t.parent]

\* the CmdHandler Insert returns: weak references to the command and to the
\* registry (the cmds vector of menu m) it was pushed on
Handle(m, c) == [cmd |-> c, reg |-> m]

\* CmdHandler(): a descriptor whose weak references are empty
DefaultHandle == [cmd |-> None, reg |-> None]

\* the application's registrations, in order; the last two are those of
\* CliSession's constructor on its global-scope menu
InsertScript ==
    << <<"net", "nshow">>, <<"cfg", "show">>, <<"cfg", "net">>,
       <<"cfg", "chelp">>, <<"cfg", "ccli">>,
       <<"root", "ping">>, <<"root", "setI">>, <<"root", "setS">>,
       <<"root", "setF">>, <<"root", "cfg">>,
       <<"global", "help">>, <<"global", "exit">> >>

RECURSIVE Build(_, _)
Build(t, script) ==
    IF script = <<>> THEN t
    ELSE Build(Insert(t, Head(script)[1], Head(script)[2]), Tail(script))

InitTree == Build(EmptyTree, InsertScript)

\* the handles the application kept
Held ==
    { Handle("root", "setI"), Handle("root", "setS"), Handle("root", "cfg"),
      Handle("cfg", "net"), DefaultHandle }

\* the lines fed to a session
Lines ==
    { <<>>, <<" ">>,
      n_ping, n_ping \o <<" ", "1">>,
      n_set \o <<" ", "1">>, n_set \o <<" ", "x">>,
      n_set \o <<" ", "1", " ", "2">>,
      n_cfg, n_net, n_cfg \o <<" ", " ">> \o n_net, n_show,
      n_cli, n_cli \o <<" ">> \o n_ping,
      n_help, n_exit }

\* the partial lines completion is asked for
Partials ==
    { <<>>, <<"c">>, n_cfg \o <<" ">>, n_cfg \o <<" ", "s">>,
      <<"n", "e">>, n_net \o <<" ", "s", "h">>, <<" ", "s">>,
      n_cli \o <<" ", "p">> }

Sessions == 1..MaxSessions

(***************************************************************************)
(* The state.                                                              *)
(***************************************************************************)
VARIABLES
    enabled,    \* Command::enabled of every command
    cmds,       \* Menu::cmds of every menu: its registry
    parent,     \* Menu::parent of every menu
    alive,      \* the commands that have not been destroyed
    sessions,   \* the sessions constructed
    current,    \* CliSession::current
    hist,       \* CliSession::history: the commands it holds
    storage,    \* Cli::globalHistoryStorage: the commands stored
    excHandler, \* whether Cli::exceptionHandler is set
    exitAction, \* whether Cli::exitAction is set
    crashed,    \* the process has ended on a fault
    last,       \* the last operation: its arguments and what it did
    steps,      \* operations so far
    nav,        \* a History taken alone: its entries, its cursor, what it
                \* was given and what it returned
    exec        \* a Feed taken one call at a time: its stack of calls,
                \* what it has called and counted so far

vars == <<enabled, cmds, parent, alive, sessions, current, hist, storage,
          excHandler, exitAction, crashed, last, steps, nav, exec>>

tree == <<enabled, cmds, parent, alive>>

NoOp ==
    [op |-> "Init", s |-> 0, h |-> DefaultHandle, line |-> <<>>,
     res |-> "none", exc |-> "none", inv |-> <<>>, out |-> <<>>,
     entered |-> None, cur0 |-> None, calls |-> <<>>, comp |-> <<>>,
     ub |-> FALSE]

\* a History as CliSession's constructor makes it, nothing loaded: buf its
\* entries, cursor its navigation cursor (0 past the end, k on the k-th
\* entry from the end), saved the line saved when the navigation began;
\* log is every line it recorded, given and shown the argument and the
\* result of its last Previous or Next, nprev the Previous calls since the
\* cursor was past the end, run whether only Previous was called since
NewHistory ==
    [buf |-> <<>>, cursor |-> 0, saved |-> <<>>, log |-> <<>>,
     given |-> <<>>, shown |-> <<>>, nprev |-> 0, run |-> TRUE]

\* no Feed under way, and none yet: s the session and cur0 its current
\* menu when the Feed began, toks and o its tokens and what its handlers
\* do; stack the calls that have not returned, ret what the last call to
\* return came to; exc and inv the exception raised and the handlers
\* called so far, cur the menu session.Current() was called with; scans and
\* delegs count the calls of Menu::ScanCmds and the calls of a parent's
\* Exec from it, deep is the most Exec calls under way at one time
IdleExec ==
    [s |-> 0, cur0 |-> None, toks |-> <<>>, o |-> "ok", stack |-> <<>>,
     ret |-> None, exc |-> "none", inv |-> <<>>, cur |-> None,
     scans |-> 0, delegs |-> 0, deep |-> 0]

\* NewCommand, had the history no bound
NewCommandUnbounded(h, line) == Append(h, line)

\* history.LoadCommands / History::NewCommand: append, the oldest entry
\* evicted beyond the size the history was constructed with
NewCommand(h, line) ==
    LET a == Append(h, line)
    IN IF Len(a) > HistorySize THEN Tail(a) ELSE a

RECURSIVE LoadCommands(_, _)
LoadCommands(h, stored) ==
    IF stored = <<>> THEN h
    ELSE LoadCommands(NewCommand(h, Head(stored)), Tail(stored))

\* the state after the application built the tree, constructed the Cli and
\* its first session
Init ==
    /\ enabled = [c \in Ids |-> TRUE]
    /\ cmds = InitTree.cmds
    /\ parent = InitTree.parent
    /\ alive = Ids
    /\ sessions = {1}
    /\ current = [s \in Sessions |-> IF s = 1 THEN "root" ELSE None]
    /\ hist = [s \in Sessions |-> <<>>]
    /\ storage = <<>>
    /\ excHandler = FALSE
    /\ exitAction = FALSE
    /\ crashed = FALSE
    /\ last = NoOp
    /\ steps = 0
    /\ nav = NewHistory
    /\ exec = IdleExec

(***************************************************************************)
(* Dispatch.  An Exec returns whether it matched ("true", "false") or that *)
(* an exception left it ("throw", with its kind), the handlers it called   *)
(* in order, and the menu session.Current() was called with, if any.       *)
(***************************************************************************)
Result(res, exc, inv, cur) ==
    [res |-> res, exc |-> exc, inv |-> inv, cur |-> cur]

NoMatch == Result("false", "none", <<>>, None)

\* r, found after the commands tried before it had called the handlers pre
After(pre, r) == [r EXCEPT !.inv = pre \o r.inv]

\* a call of the handler of command c: its arguments, and how it ended
Call(c, args, oc) == [cmd |-> c, args |-> args, oc |-> oc]

\* what the handler of command c does in a Feed whose raising handlers
\* behave as o
HandlerOutcome(c, o) == IF c \in Throwers THEN o ELSE "ok"

RECURSIVE Select(_, _)
\* the first parameter bound to p, the rest to what Select made of them
Bind(p, rest) ==
    [ok |-> rest.ok, vals |-> IF rest.ok THEN <<p.val>> \o rest.vals ELSE <<>>]

\* const P p = from_string<P>(*first), then Select<Args...>::Exec on the
\* rest: a failure ends the conversion with std::bad_cast
SelectNext(p, types, toks) ==
    IF ~p.ok THEN [ok |-> FALSE, vals |-> <<>>]
    ELSE Bind(p, Select(Tail(types), Tail(toks)))

\* Select<P, Args...>::Exec: the tokens converted left to right
Select(types, toks) ==
    IF types = <<>> THEN [ok |-> TRUE, vals |-> <<>>]
    ELSE SelectNext(FromString(Head(types), Head(toks)), types, toks)

\* the try block of VariadicFunctionCommand::Exec, had the std::bad_cast of
\* a conversion not been caught there
TryCallThrows(c, b, oc) ==
    IF ~b.ok THEN Result("throw", "bad_cast", <<>>, None)
    ELSE IF oc = "ok" THEN Result("true", "none", <<Call(c, b.vals, oc)>>, None)
    ELSE IF oc = "bad_cast"
    THEN Result("false", "none", <<Call(c, b.vals, oc)>>, None)
    ELSE Result("throw", oc, <<Call(c, b.vals, oc)>>, None)

\* the try block of VariadicFunctionCommand::Exec, b being what Select made
\* of the tokens: it holds the conversion and the call of the handler, so a
\* std::bad_cast of either is caught and is "no match"
TryCall(c, b, oc) ==
    IF ~b.ok THEN NoMatch
    ELSE IF oc = "ok" THEN Result("true", "none", <<Call(c, b.vals, oc)>>, None)
    ELSE IF oc = "bad_cast"
    THEN Result("false", "none", <<Call(c, b.vals, oc)>>, None)
    ELSE Result("throw", oc, <<Call(c, b.vals, oc)>>, None)

\* VariadicFunctionCommand::Exec, had it let lines with more tokens than
\* parameters through
VariadicExecAtLeast(c, toks, o) ==
    IF ~enabled[c] THEN NoMatch
    ELSE IF Len(toks) < Len(Params(c)) + 1 THEN NoMatch
    ELSE IF Name(c) = toks[1]
    THEN TryCall(c, Select(Params(c), Tail(toks)), HandlerOutcome(c, o))
    ELSE NoMatch

\* VariadicFunctionCommand::Exec
VariadicExec(c, toks, o) ==
    IF ~enabled[c] THEN NoMatch
    ELSE IF Len(toks) # Len(Params(c)) + 1 THEN NoMatch
    ELSE IF Name(c) = toks[1]
    THEN TryCall(c, Select(Params(c), Tail(toks)), HandlerOutcome(c, o))
    ELSE NoMatch

\* FreeformCommand::Exec
FreeformExec(c, toks, o) ==
    IF ~enabled[c] THEN NoMatch
    ELSE IF Name(c) = toks[1]
    THEN IF HandlerOutcome(c, o) = "ok"
         THEN Result("true", "none", <<Call(c, Tail(toks), "ok")>>, None)
         ELSE Result("throw", HandlerOutcome(c, o),
                     <<Call(c, Tail(toks), HandlerOutcome(c, o))>>, None)
    ELSE NoMatch

RECURSIVE Exec(_, _, _), ExecEach(_, _, _)

\* Menu::Exec, had a menu named first in the line been entered whatever
\* follows its name
MenuExecEntersFirst(m, toks, o) ==
    IF ~enabled[m] THEN NoMatch
    ELSE IF toks[1] = Name(m) THEN Result("true", "none", <<>>, m)
    ELSE NoMatch

\* Menu::Exec
MenuExec(m, toks, o) ==
    IF ~enabled[m] THEN NoMatch
    ELSE IF toks[1] = Name(m)
    THEN IF Len(toks) = 1 THEN Result("true", "none", <<>>, m)
         ELSE ExecEach(cmds[m], Tail(toks), o)
    ELSE NoMatch

\* the virtual call cmd->Exec(cmdLine, session)
Exec(c, toks, o) ==
    IF Kind(c) = "menu" THEN MenuExec(c, toks, o)
    ELSE IF Kind(c) = "fixed" THEN VariadicExec(c, toks, o)
    ELSE FreeformExec(c, toks, o)

\* one turn of the loop below: r is what the first command of cs returned
ExecNext(r, cs, toks, o) ==
    IF r.res # "false" THEN r
    ELSE After(r.inv, ExecEach(Tail(cs), toks, o))

\* for (auto& cmd: *cmds) if (cmd->Exec(cmdLine, session)) return true;
ExecEach(cs, toks, o) ==
    IF cs = <<>> THEN NoMatch
    ELSE ExecNext(Exec(Head(cs), toks, o), cs, toks, o)

\* ScanParent, had the delegation tried the parent's commands on the line
\* instead of the parent's Exec
ScanParentCommands(r, m, toks, o) ==
    IF r.res # "false" THEN r
    ELSE IF parent[m] # None
    THEN After(r.inv, ExecEach(cmds[parent[m]], toks, o))
    ELSE r

RECURSIVE ExecUp(_, _, _)
\* the Exec of menu m and, while it does not match, of the menus above it
ExecUp(m, toks, o) ==
    IF m = None THEN NoMatch
    ELSE IF MenuExec(m, toks, o).res # "false" THEN MenuExec(m, toks, o)
    ELSE After(MenuExec(m, toks, o).inv, ExecUp(parent[m], toks, o))

\* ScanParent, had the delegation walked up the chain of ancestors
ScanParentWalksUp(r, m, toks, o) ==
    IF r.res # "false" THEN r
    ELSE After(r.inv, ExecUp(parent[m], toks, o))

\* ScanParent, had the delegation been to the parent's ScanCmds: the
\* parent's commands tried on the line, then the Exec of the menu above
ScanParentScanCmds(r, m, toks, o) ==
    IF r.res # "false" THEN r
    ELSE IF parent[m] = None THEN r
    ELSE IF ~enabled[parent[m]] THEN r
    ELSE IF ExecEach(cmds[parent[m]], toks, o).res # "false"
    THEN After(r.inv, ExecEach(cmds[parent[m]], toks, o))
    ELSE IF parent[parent[m]] # None
    THEN After(r.inv \o ExecEach(cmds[parent[m]], toks, o).inv,
               MenuExec(parent[parent[m]], toks, o))
    ELSE After(r.inv, ExecEach(cmds[parent[m]], toks, o))

\* return (parent && parent->Exec(cmdLine, session)), r being what the loop
\* over the menu's own commands returned
ScanParent(r, m, toks, o) ==
    IF r.res # "false" THEN r
    ELSE IF parent[m] # None
    THEN After(r.inv, MenuExec(parent[m], toks, o))
    ELSE r

\* Menu::ScanCmds, had it not asked whether the menu is enabled
ScanCmdsWhenDisabled(m, toks, o) ==
    ScanParent(ExecEach(cmds[m], toks, o), m, toks, o)

\* Menu::ScanCmds
ScanCmds(m, toks, o) ==
    IF ~enabled[m] THEN NoMatch
    ELSE ScanParent(ExecEach(cmds[m], toks, o), m, toks, o)

(***************************************************************************)
(* Help.  A line of output is its kind, the command it is the help entry   *)
(* of, and the command line it quotes.                                     *)
(***************************************************************************)
OutLine(kind, c, text) == [kind |-> kind, cmd |-> c, text |-> text]

\* Menu::Help, VariadicFunctionCommand::Help, FreeformCommand::Help: the
\* entry of command c, nothing when it is disabled
Help(c) == IF enabled[c] THEN <<OutLine("help", c, <<>>)>> ELSE <<>>

RECURSIVE HelpEach(_)
HelpEach(cs) == IF cs = <<>> THEN <<>> ELSE Help(Head(cs)) \o HelpEach(Tail(cs))

RECURSIVE MainHelpAncestors(_)
\* Menu::MainHelp, had it gone on with the parent's MainHelp, and so with
\* the commands of every menu above
MainHelpAncestors(m) ==
    IF ~enabled[m] THEN <<>>
    ELSE HelpEach(cmds[m])
            \o (IF parent[m] # None THEN MainHelpAncestors(parent[m]) ELSE <<>>)

\* Menu::MainHelp
MainHelp(m) ==
    IF ~enabled[m] THEN <<>>
    ELSE HelpEach(cmds[m]) \o (IF parent[m] # None THEN Help(parent[m]) ELSE <<>>)

\* CliSession::Help of a session whose current menu is cur
SessionHelp(cur) ==
    <<OutLine("commands available", None, <<>>)>>
        \o MainHelp("global") \o MainHelp(cur)

(***************************************************************************)
(* Completion.                                                             *)
(***************************************************************************)
\* Command::GetCompletionRecursive
CommandCompletion(c, line) ==
    IF ~enabled[c] THEN <<>>
    ELSE IF StartsWith(Name(c), line) THEN <<Name(c)>>
    ELSE <<>>

RECURSIVE GetCompletionRecursive(_, _), CompleteEach(_, _)

\* result.push_back(Name() + ' ' + c) for every c of cs
Prefixed(name, cs) == [i \in 1..Len(cs) |-> name \o <<" ">> \o cs[i]]

\* Menu::GetCompletionRecursive, had it not trimmed what follows the name
MenuCompletionUntrimmed(m, line) ==
    IF StartsWith(line, Name(m))
    THEN Prefixed(Name(m),
                  CompleteEach(cmds[m],
                               SubSeq(line, Len(Name(m)) + 1, Len(line))))
    ELSE CommandCompletion(m, line)

\* Menu::GetCompletionRecursive
MenuCompletionRecursive(m, line) ==
    IF StartsWith(line, Name(m))
    THEN Prefixed(Name(m),
                  CompleteEach(cmds[m],
                               TrimLeft(SubSeq(line, Len(Name(m)) + 1, Len(line)))))
    ELSE CommandCompletion(m, line)

\* the virtual call cmd->GetCompletionRecursive(line)
GetCompletionRecursive(c, line) ==
    IF Kind(c) = "menu" THEN MenuCompletionRecursive(c, line)
    ELSE CommandCompletion(c, line)

\* the free function cli::GetCompletions(cmds, currentLine)
CompleteEach(cs, line) ==
    IF cs = <<>> THEN <<>>
    ELSE GetCompletionRecursive(Head(cs), line) \o CompleteEach(Tail(cs), line)

\* Menu::GetCompletions
MenuGetCompletions(m, line) ==
    CompleteEach(cmds[m], line)
        \o (IF parent[m] # None THEN MenuCompletionRecursive(parent[m], line)
            ELSE <<>>)

RECURSIVE InsertSorted(_, _), Sort(_), Unique(_)
InsertSorted(v, x) ==
    IF v = <<>> THEN <<x>>
    ELSE IF StrLess(x, Head(v)) THEN <<x>> \o v
    ELSE <<Head(v)>> \o InsertSorted(Tail(v), x)

\* std::sort
Sort(v) == IF v = <<>> THEN <<>> ELSE InsertSorted(Sort(Tail(v)), Head(v))

\* std::unique and the resize, had they left every element in place
UniqueKeepsAll(v) == v

\* std::unique and the resize: of each run of equal elements the first
Unique(v) ==
    IF Len(v) < 2 THEN v
    ELSE IF v[1] = v[2] THEN Unique(Tail(v))
    ELSE <<Head(v)>> \o Unique(Tail(v))

\* CliSession::GetCompletions, from the trimmed line on
CompletionsOf(cur, l) ==
    Unique(Sort(MenuGetCompletions("global", l) \o MenuGetCompletions(cur, l)))

\* CliSession::GetCompletions of a session whose current menu is cur
SessionGetCompletions(cur, line) == CompletionsOf(cur, TrimLeft(line))

(***************************************************************************)
(* CliSession::Feed and CliSession::Exit.                                  *)
(***************************************************************************)
\* History::GetCommands
GetCommands(h) == h

\* HistoryStorage::Store
Store(cs) == cs

\* what CliSession::Exit calls, had it stored the history before the hooks
ExitCallsStoreFirst ==
    <<"Cli::StoreCommands", "CliSession::exitAction">>
        \o (IF exitAction THEN <<"Cli::exitAction">> ELSE <<>>)

\* the hooks and the storage CliSession::Exit calls, in order
ExitCalls ==
    <<"CliSession::exitAction">>
        \o (IF exitAction THEN <<"Cli::exitAction">> ELSE <<>>)
        \o <<"Cli::StoreCommands">>

\* Cli::StdExceptionHandler(out, cmd, e): the handler the application set,
\* which is given the session's stream and writes its report on it, or
\* else e.what() on the session's stream
StdExceptionHandler(line) ==
    IF excHandler
    THEN [calls |-> <<"Cli::exceptionHandler">>,
          out |-> <<OutLine("exception handler", None, line)>>]
    ELSE [calls |-> <<>>, out |-> <<OutLine("what", None, <<>>)>>]

\* if (!found) found = current->ScanCmds(strs, *this), g being what the
\* global-scope menu returned
ScanCurrent(g, s, toks, o) ==
    IF g.res # "false" THEN g
    ELSE After(g.inv, ScanCmds(current[s], toks, o))

\* the try block of Feed, had it scanned the current menu before the
\* global-scope menu
DispatchCurrentFirst(s, toks, o) ==
    IF ScanCmds(current[s], toks, o).res # "false"
    THEN ScanCmds(current[s], toks, o)
    ELSE After(ScanCmds(current[s], toks, o).inv, ScanCmds("global", toks, o))

\* the try block of Feed: the global-scope menu, then the current menu
Dispatch(s, toks, o) == ScanCurrent(ScanCmds("global", toks, o), s, toks, o)

Called(r) == {r.inv[i].cmd : i \in DOMAIN r.inv}

\* whether a Feed whose global-scope menu returned g reads through
\* CliSession::current: in Help(), or in current->ScanCmds
ReadsCurrent(g) == g.res = "false" \/ "help" \in Called(g)

DerefsCurrent(toks) == ReadsCurrent(ScanCmds("global", toks, "ok"))

\* what Feed's catch clauses and its "wrong command" write, d being what
\* the try block came to and e what Cli::StdExceptionHandler does
Diagnostic(d, e, line) ==
    IF d.res = "false" THEN <<OutLine("wrong command", None, line)>>
    ELSE IF d.res = "throw" /\ d.exc # "other" THEN e.out
    ELSE IF d.res = "throw" THEN <<OutLine("unknown exception", None, line)>>
    ELSE <<>>

\* what a Feed did, d being what the try block came to
FeedRecord(s, line, d, e, ub) ==
    [NoOp EXCEPT
       !.op = "Feed", !.s = s, !.line = line,
       !.res = d.res, !.exc = d.exc, !.inv = d.inv,
       !.entered = d.cur, !.cur0 = current[s], !.ub = ub,
       !.calls = (IF "exit" \in Called(d) THEN ExitCalls ELSE <<>>)
                 \o (IF d.res = "throw" /\ d.exc # "other" THEN e.calls ELSE <<>>),
       !.out = (IF "help" \in Called(d) THEN SessionHelp(current[s]) ELSE <<>>)
               \o Diagnostic(d, e, line)]

\* Feed from history.NewCommand(cmd) on, had the line been recorded only
\* when a command matched it
FeedDoneOnMatch(s, line, d, ub) ==
    /\ hist' = IF d.res = "true" THEN [hist EXCEPT ![s] = NewCommand(@, line)]
               ELSE hist
    /\ current' = IF d.cur # None THEN [current EXCEPT ![s] = d.cur]
                  ELSE current
    /\ storage' = IF "exit" \in Called(d)
                  THEN Store(GetCommands(NewCommand(hist[s], line)))
                  ELSE storage
    /\ last' = FeedRecord(s, line, d, StdExceptionHandler(line), ub)

\* Feed from history.NewCommand(cmd) on, had the current menu been one for
\* all the sessions
FeedDoneSharedCurrent(s, line, d, ub) ==
    /\ hist' = [hist EXCEPT ![s] = NewCommand(@, line)]
    /\ current' = IF d.cur # None
                  THEN [t \in Sessions |-> IF t \in sessions THEN d.cur
                                           ELSE current[t]]
                  ELSE current
    /\ storage' = IF "exit" \in Called(d)
                  THEN Store(GetCommands(NewCommand(hist[s], line)))
                  ELSE storage
    /\ last' = FeedRecord(s, line, d, StdExceptionHandler(line), ub)

\* Feed from history.NewCommand(cmd) on, d being what the try block came to
FeedDone(s, line, d, ub) ==
    /\ hist' = [hist EXCEPT ![s] = NewCommand(@, line)]
    /\ current' = IF d.cur # None THEN [current EXCEPT ![s] = d.cur]
                  ELSE current
    /\ storage' = IF "exit" \in Called(d)
                  THEN Store(GetCommands(NewCommand(hist[s], line)))
                  ELSE storage
    /\ last' = FeedRecord(s, line, d, StdExceptionHandler(line), ub)

\* Feed from its tokens on
FeedTokens(s, line, toks, o) ==
    IF toks = <<>>
    THEN /\ last' = [NoOp EXCEPT !.op = "Feed", !.s = s, !.line = line,
                                 !.res = "empty", !.cur0 = current[s]]
         /\ UNCHANGED <<current, hist, storage>>
    ELSE FeedDone(s, line, Dispatch(s, toks, o),
                  current[s] \notin alive /\ DerefsCurrent(toks))

\* Feed(cmd) on session s, the handlers that may raise behaving as o.  When
\* the current menu has been destroyed, this is the run that finds the
\* freed menu as it was left; Fault is the other one.
Feed(s, line, o) ==
    /\ ~crashed
    /\ steps < MaxSteps
    /\ s \in sessions
    /\ FeedTokens(s, line, Split(line), o)
    /\ steps' = steps + 1
    /\ UNCHANGED <<nav, exec>>
    /\ UNCHANGED <<tree, sessions, excHandler, exitAction, crashed>>

\* Feed(cmd) on a session whose current menu has been destroyed, reading
\* through the dangling pointer: the run that ends the process
Fault(s, line) ==
    /\ ~crashed
    /\ steps < MaxSteps
    /\ s \in sessions
    /\ current[s] \notin alive
    /\ Split(line) # <<>>
    /\ DerefsCurrent(Split(line))
    /\ hist' = [hist EXCEPT ![s] = NewCommand(@, line)]
    /\ crashed' = TRUE
    /\ last' = [NoOp EXCEPT !.op = "Feed", !.s = s, !.line = line,
                            !.res = "fault", !.cur0 = current[s], !.ub = TRUE]
    /\ steps' = steps + 1
    /\ UNCHANGED <<nav, exec>>
    /\ UNCHANGED <<tree, sessions, current, storage, excHandler, exitAction>>

(***************************************************************************)
(* The handles.                                                            *)
(***************************************************************************)
\* weak_ptr::lock(): the object, or nothing once it has been destroyed
\* weak_ptr::lock, had it given the referent back without asking whether it
\* still exists
LockRaw(ref) == ref

Lock(ref) == IF ref # None /\ ref \in alive THEN ref ELSE None

RECURSIVE Subtree(_), SubtreeEach(_)
\* command c and, when it is a menu, all that its registry holds: what is
\* destroyed when the last shared_ptr to c is dropped
Subtree(c) ==
    {c} \cup (IF Kind(c) = "menu" THEN SubtreeEach(cmds[c]) ELSE {})

SubtreeEach(cs) ==
    IF cs = <<>> THEN {} ELSE Subtree(Head(cs)) \cup SubtreeEach(Tail(cs))

\* std::find_if, had its predicate compared the names of the commands
FindIfName(reg, scmd) ==
    IF \E i \in 1..Len(reg) : Name(reg[i]) = Name(scmd)
    THEN CHOOSE i \in 1..Len(reg) :
            /\ Name(reg[i]) = Name(scmd)
            /\ \A j \in 1..(i - 1) : Name(reg[j]) # Name(scmd)
    ELSE 0

\* std::find_if(scmds->begin(), scmds->end(), c.get() == scmd.get()): the
\* first position holding the object, 0 for end()
FindIf(reg, scmd) ==
    IF \E i \in 1..Len(reg) : reg[i] = scmd
    THEN CHOOSE i \in 1..Len(reg) :
            /\ reg[i] = scmd
            /\ \A j \in 1..(i - 1) : reg[j] # scmd
    ELSE 0

\* vector::erase(i)
Erase(reg, i) == SubSeq(reg, 1, i - 1) \o SubSeq(reg, i + 1, Len(reg))

HandleOp(op, h) == [NoOp EXCEPT !.op = op, !.h = h]

\* CmdHandler::Enable
Enable(h) ==
    /\ ~crashed
    /\ steps < MaxSteps
    /\ LET c == Lock(h.cmd)
       IN enabled' = IF c # None THEN [enabled EXCEPT ![c] = TRUE] ELSE enabled
    /\ last' = HandleOp("Enable", h)
    /\ steps' = steps + 1
    /\ UNCHANGED <<nav, exec>>
    /\ UNCHANGED <<cmds, parent, alive, sessions, current, hist, storage,
                   excHandler, exitAction, crashed>>

\* CmdHandler::Disable
Disable(h) ==
    /\ ~crashed
    /\ steps < MaxSteps
    /\ LET c == Lock(h.cmd)
       IN enabled' = IF c # None THEN [enabled EXCEPT ![c] = FALSE] ELSE enabled
    /\ last' = HandleOp("Disable", h)
    /\ steps' = steps + 1
    /\ UNCHANGED <<nav, exec>>
    /\ UNCHANGED <<cmds, parent, alive, sessions, current, hist, storage,
                   excHandler, exitAction, crashed>>

\* CmdHandler::Remove.  The erased entry was the only shared_ptr to the
\* command, so the command and what it owns are destroyed with it.
Remove(h) ==
    /\ ~crashed
    /\ steps < MaxSteps
    /\ LET scmd == Lock(h.cmd)
           scmds == Lock(h.reg)
           i == IF scmd # None /\ scmds # None THEN FindIf(cmds[scmds], scmd)
                ELSE 0
       IN IF i # 0
          THEN /\ cmds' = [cmds EXCEPT ![scmds] = Erase(@, i)]
               /\ alive' = alive \ Subtree(scmd)
          ELSE UNCHANGED <<cmds, alive>>
    /\ last' = HandleOp("Remove", h)
    /\ steps' = steps + 1
    /\ UNCHANGED <<nav, exec>>
    /\ UNCHANGED <<enabled, parent, sessions, current, hist, storage,
                   excHandler, exitAction, crashed>>

(***************************************************************************)
(* The other operations.                                                   *)
(***************************************************************************)
\* CliSession::CliSession(cli, out, historySize)
NewSession(s) ==
    /\ ~crashed
    /\ steps < MaxSteps
    /\ s \in Sessions \ sessions
    /\ \A t \in Sessions \ sessions : s <= t
    /\ sessions' = sessions \cup {s}
    /\ current' = [current EXCEPT ![s] = "root"]
    /\ hist' = [hist EXCEPT ![s] = LoadCommands(<<>>, storage)]
    /\ last' = [NoOp EXCEPT !.op = "NewSession", !.s = s]
    /\ steps' = steps + 1
    /\ UNCHANGED <<nav, exec>>
    /\ UNCHANGED <<tree, storage, excHandler, exitAction, crashed>>

\* Cli::StdExceptionHandler(handler)
SetStdExceptionHandler ==
    /\ ~crashed
    /\ steps < MaxSteps
    /\ ~excHandler
    /\ excHandler' = TRUE
    /\ last' = [NoOp EXCEPT !.op = "StdExceptionHandler"]
    /\ steps' = steps + 1
    /\ UNCHANGED <<nav, exec>>
    /\ UNCHANGED <<tree, sessions, current, hist, storage, exitAction, crashed>>

\* Cli::ExitAction(action)
SetExitAction ==
    /\ ~crashed
    /\ steps < MaxSteps
    /\ ~exitAction
    /\ exitAction' = TRUE
    /\ last' = [NoOp EXCEPT !.op = "ExitAction"]
    /\ steps' = steps + 1
    /\ UNCHANGED <<nav, exec>>
    /\ UNCHANGED <<tree, sessions, current, hist, storage, excHandler, crashed>>

\* CliSession::Exit() on session s, called by the application
Exit(s) ==
    /\ ~crashed
    /\ steps < MaxSteps
    /\ s \in sessions
    /\ storage' = Store(GetCommands(hist[s]))
    /\ last' = [NoOp EXCEPT !.op = "Exit", !.s = s, !.cur0 = current[s],
                            !.calls = ExitCalls]
    /\ steps' = steps + 1
    /\ UNCHANGED <<nav, exec>>
    /\ UNCHANGED <<tree, sessions, current, hist, excHandler, exitAction,
                   crashed>>

\* CliSession::GetCompletions(currentLine) on session s.  When the current
\* menu has been destroyed, this is the run that finds the freed menu as it
\* was left; FaultComplete is the other one.
Complete(s, line) ==
    /\ ~crashed
    /\ steps < MaxSteps
    /\ s \in sessions
    /\ last' = [NoOp EXCEPT !.op = "Complete", !.s = s, !.line = line,
                            !.cur0 = current[s],
                            !.ub = current[s] \notin alive,
                            !.comp = SessionGetCompletions(current[s], line)]
    /\ steps' = steps + 1
    /\ UNCHANGED <<nav, exec>>
    /\ UNCHANGED <<tree, sessions, current, hist, storage, excHandler,
                   exitAction, crashed>>

\* CliSession::GetCompletions on a session whose current menu has been
\* destroyed: the run that ends the process
FaultComplete(s, line) ==
    /\ ~crashed
    /\ steps < MaxSteps
    /\ s \in sessions
    /\ current[s] \notin alive
    /\ crashed' = TRUE
    /\ last' = [NoOp EXCEPT !.op = "Complete", !.s = s, !.line = line,
                            !.res = "fault", !.cur0 = current[s], !.ub = TRUE]
    /\ steps' = steps + 1
    /\ UNCHANGED <<nav, exec>>
    /\ UNCHANGED <<tree, sessions, current, hist, storage, excHandler,
                   exitAction>>

Next ==
    \/ \E s \in Sessions, line \in Lines :
          \E o \in OutcomesOf(Split(line)) : Feed(s, line, o)
    \/ \E s \in Sessions, line \in Lines : Fault(s, line)
    \/ \E h \in Held : Enable(h)
    \/ \E h \in Held : Disable(h)
    \/ \E h \in Held : Remove(h)
    \/ \E s \in Sessions : NewSession(s)
    \/ SetStdExceptionHandler
    \/ SetExitAction
    \/ \E s \in Sessions : Exit(s)
    \/ \E s \in Sessions, line \in Partials : Complete(s, line)
    \/ \E s \in Sessions, line \in Partials : FaultComplete(s, line)

Spec == Init /\ [][Next]_vars

(***************************************************************************)
(* The History of a session taken alone: what Feed records in it, and the  *)
(* navigation CliSession::PreviousCmd and NextCmd hand to it.              *)
(***************************************************************************)
\* the lines recorded and the lines navigation is given
HistLines == {n_ping, n_cfg, n_help}

\* the entry of history n the cursor at k is on
EntryAt(n, k) == n.buf[Len(n.buf) - k + 1]

\* History::NewCommand(line) on history n: the entry, and the cursor back
\* past the end
HistoryNewCommand(n, line) ==
    [n EXCEPT !.buf = NewCommand(@, line), !.cursor = 0,
              !.log = Append(@, line), !.nprev = 0, !.run = TRUE]

\* History::Previous, had the cursor gone round to the newest entry from
\* the oldest
PreviousWraps(n, line) ==
    IF n.buf = <<>>
    THEN [n EXCEPT !.given = line, !.shown = line, !.nprev = @ + 1]
    ELSE [n EXCEPT !.saved = IF n.cursor = 0 THEN line ELSE @,
                   !.cursor = IF @ < Len(n.buf) THEN @ + 1 ELSE 1,
                   !.given = line,
                   !.shown = EntryAt(n, IF n.cursor < Len(n.buf)
                                        THEN n.cursor + 1 ELSE 1),
                   !.nprev = @ + 1]

\* History::Previous(line) on history n: the line is saved when the cursor
\* is past the end; the cursor goes one entry older and that entry is
\* returned, or, already on the oldest entry, stays and the line given is
\* returned
Previous(n, line) ==
    IF n.cursor < Len(n.buf)
    THEN [n EXCEPT !.saved = IF n.cursor = 0 THEN line ELSE @,
                   !.cursor = @ + 1,
                   !.given = line,
                   !.shown = EntryAt(n, n.cursor + 1),
                   !.nprev = @ + 1]
    ELSE [n EXCEPT !.saved = IF n.cursor = 0 THEN line ELSE @,
                   !.given = line,
                   !.shown = line,
                   !.nprev = @ + 1]

\* History::Next() on history n: the cursor goes one entry newer and that
\* entry is returned, or, past the newest, the line saved is
HistoryNext(n) ==
    IF n.cursor > 1
    THEN [n EXCEPT !.cursor = @ - 1, !.given = <<>>,
                   !.shown = EntryAt(n, n.cursor - 1),
                   !.nprev = 0, !.run = FALSE]
    ELSE [n EXCEPT !.cursor = 0, !.given = <<>>, !.shown = n.saved,
                   !.nprev = 0, !.run = TRUE]

\* history.NewCommand(cmd), as Feed calls it
Record(line) ==
    /\ Len(nav.log) < MaxLog
    /\ nav' = HistoryNewCommand(nav, line)
    /\ UNCHANGED <<tree, sessions, current, hist, storage, excHandler,
                   exitAction, crashed, last, steps, exec>>

\* CliSession::PreviousCmd(line)
PreviousCmd(line) ==
    /\ nav.nprev < MaxPrev
    /\ nav' = Previous(nav, line)
    /\ UNCHANGED <<tree, sessions, current, hist, storage, excHandler,
                   exitAction, crashed, last, steps, exec>>

\* CliSession::NextCmd()
NextCmd ==
    /\ nav' = HistoryNext(nav)
    /\ UNCHANGED <<tree, sessions, current, hist, storage, excHandler,
                   exitAction, crashed, last, steps, exec>>

HistNext ==
    \/ \E line \in HistLines : Record(line)
    \/ \E line \in HistLines \cup {<<>>} : PreviousCmd(line)
    \/ NextCmd

HistSpec == Init /\ [][HistNext]_vars

(***************************************************************************)
(* The try block of CliSession::Feed, one call or return at a time.  The   *)
(* frames of the stack are those of Feed, Menu::ScanCmds and the Exec of a *)
(* command: the function, the command it is called on, the tokens it was   *)
(* given, and where its loop stands.  exec.ret is what the call that has   *)
(* just returned came to, None while the frame on top is going on.         *)
(***************************************************************************)
\* the lines fed one step at a time
ExecLines ==
    { n_ping, n_set \o <<" ", "1">>, n_cfg, n_cfg \o <<" ", " ">> \o n_net,
      n_show, n_cli, n_cli \o <<" ">> \o n_ping, n_help }

\* the handles toggled between two such Feeds
ExecHeld == {Handle("root", "cfg"), Handle("cfg", "net")}

Frame(fn, c, toks) == [fn |-> fn, c |-> c, toks |-> toks, i |-> 1]

Top(st) == st[Len(st)]

\* the return of the function on top
Pop(st) == SubSeq(st, 1, Len(st) - 1)

\* the loop of the function on top goes on with the next command
Advance(st) == [st EXCEPT ![Len(st)].i = @ + 1]

\* the Exec calls that have not returned
ExecFrames(st) == Cardinality({k \in DOMAIN st : st[k].fn = "Exec"})

\* a call made by the function on top: the frame f is entered
Enter(x, f) ==
    [x EXCEPT !.stack = Append(@, f),
              !.deep = IF ExecFrames(Append(x.stack, f)) > @
                       THEN ExecFrames(Append(x.stack, f)) ELSE @]

\* the function on top returns r
Return(x, r) == [x EXCEPT !.stack = Pop(@), !.ret = r]

\* parent->Exec(cmdLine, session) as Menu::ScanCmds calls it, had it been
\* the parent's ScanCmds
DelegateToScanCmds(m, toks) == Frame("ScanCmds", parent[m], toks)

\* parent->Exec(cmdLine, session) as Menu::ScanCmds calls it
Delegate(m, toks) == Frame("Exec", parent[m], toks)

\* Feed(cmd) on session s as far as the try block
TryBegin(s, line, o) ==
    /\ ~crashed
    /\ exec.stack = <<>>
    /\ s \in sessions
    /\ current[s] \in alive
    /\ Split(line) # <<>>
    /\ exec' = [IdleExec EXCEPT !.s = s, !.cur0 = current[s],
                                !.toks = Split(line), !.o = o,
                                !.stack = <<Frame("Feed", None, Split(line))>>]
    /\ last' = [NoOp EXCEPT !.op = "Feed", !.s = s, !.line = line,
                            !.cur0 = current[s]]
    /\ UNCHANGED <<tree, sessions, current, hist, storage, excHandler,
                   exitAction, crashed, steps, nav>>

\* the try block itself: globalScopeMenu->ScanCmds, then, not found,
\* current->ScanCmds; it is left when either has found the command, when an
\* exception comes out, and after the second
FeedStep ==
    /\ exec.stack # <<>>
    /\ Top(exec.stack).fn = "Feed"
    /\ exec' =
          IF exec.ret = None
          THEN Enter([exec EXCEPT !.scans = @ + 1],
                     Frame("ScanCmds",
                           IF Top(exec.stack).i = 1 THEN "global"
                           ELSE current[exec.s],
                           exec.toks))
          ELSE IF exec.ret = "false" /\ Top(exec.stack).i = 1
          THEN [exec EXCEPT !.stack = Advance(@), !.ret = None]
          ELSE [exec EXCEPT !.stack = <<>>]
    /\ UNCHANGED <<tree, sessions, current, hist, storage, excHandler,
                   exitAction, crashed, last, steps, nav>>

\* Menu::ScanCmds, f being its frame and n the number of its commands
ScanCmdsGoesOn(f, n) ==
    IF f.i = 1 /\ ~enabled[f.c] THEN Return(exec, "false")
    ELSE IF f.i <= n THEN Enter(exec, Frame("Exec", cmds[f.c][f.i], f.toks))
    ELSE IF parent[f.c] # None
    THEN Enter([exec EXCEPT !.delegs = @ + 1], Delegate(f.c, f.toks))
    ELSE Return(exec, "false")

ScanCmdsStep ==
    /\ exec.stack # <<>>
    /\ Top(exec.stack).fn = "ScanCmds"
    /\ exec' =
          IF exec.ret = None
          THEN ScanCmdsGoesOn(Top(exec.stack), Len(cmds[Top(exec.stack).c]))
          ELSE IF /\ exec.ret = "false"
                  /\ Top(exec.stack).i <= Len(cmds[Top(exec.stack).c])
          THEN [exec EXCEPT !.stack = Advance(@), !.ret = None]
          ELSE Return(exec, exec.ret)
    /\ UNCHANGED <<tree, sessions, current, hist, storage, excHandler,
                   exitAction, crashed, last, steps, nav>>

\* whether Menu::Exec, f being its frame, is at session.Current(this)
Enters(f) ==
    /\ exec.ret = None
    /\ enabled[f.c]
    /\ f.toks[1] = Name(f.c)
    /\ Len(f.toks) = 1

\* Menu::Exec, f being its frame and n the number of its commands
MenuExecGoesOn(f, n) ==
    IF ~enabled[f.c] THEN Return(exec, "false")
    ELSE IF f.toks[1] # Name(f.c) THEN Return(exec, "false")
    ELSE IF Len(f.toks) = 1 THEN Return([exec EXCEPT !.cur = f.c], "true")
    ELSE IF f.i <= n
    THEN Enter(exec, Frame("Exec", cmds[f.c][f.i], Tail(f.toks)))
    ELSE Return(exec, "false")

MenuExecStep ==
    /\ exec.stack # <<>>
    /\ Top(exec.stack).fn = "Exec"
    /\ Kind(Top(exec.stack).c) = "menu"
    /\ exec' =
          IF exec.ret = None
          THEN MenuExecGoesOn(Top(exec.stack), Len(cmds[Top(exec.stack).c]))
          ELSE IF exec.ret = "false"
          THEN [exec EXCEPT !.stack = Advance(@), !.ret = None]
          ELSE Return(exec, exec.ret)
    /\ current' = IF Enters(Top(exec.stack))
                  THEN [current EXCEPT ![exec.s] = Top(exec.stack).c]
                  ELSE current
    /\ UNCHANGED <<tree, sessions, hist, storage, excHandler, exitAction,
                   crashed, last, steps, nav>>

\* the Exec of a leaf command, r being what it comes to, its handler called
\* or not: it calls no other Exec
LeafExecReturns(r) ==
    [exec EXCEPT !.stack = Pop(@), !.ret = r.res, !.exc = r.exc,
                 !.inv = @ \o r.inv]

LeafExecStep ==
    /\ exec.stack # <<>>
    /\ Top(exec.stack).fn = "Exec"
    /\ Kind(Top(exec.stack).c) # "menu"
    /\ exec' = LeafExecReturns(Exec(Top(exec.stack).c, Top(exec.stack).toks,
                                    exec.o))
    /\ UNCHANGED <<tree, sessions, current, hist, storage, excHandler,
                   exitAction, crashed, last, steps, nav>>

\* one call or return of a Feed under way
TryStep == FeedStep \/ ScanCmdsStep \/ MenuExecStep \/ LeafExecStep

\* the application toggling a handle, no Feed being under way
TryToggle(h) ==
    /\ exec.stack = <<>>
    /\ Enable(h) \/ Disable(h)

TryNext ==
    \/ \E s \in Sessions, line \in ExecLines :
          \E o \in OutcomesOf(Split(line)) : TryBegin(s, line, o)
    \/ TryStep
    \/ \E h \in ExecHeld : TryToggle(h)

\* a Feed runs on the calling thread, which goes on as long as it has a
\* step to take
TrySpec == Init /\ [][TryNext]_vars /\ WF_vars(TryStep)

(***************************************************************************)
(* What the properties below read of the last operation.                   *)
(***************************************************************************)
LastToks == Split(last.line)

\* the last operation was a Feed that dispatched its tokens, on a session
\* whose current menu had not been destroyed
Dispatched ==
    /\ last.op = "Feed"
    /\ last.res \in {"true", "false", "throw"}
    /\ ~last.ub

WroteWrongCommand ==
    \E i \in DOMAIN last.out : last.out[i].kind = "wrong command"

HelpEntries ==
    {last.out[i].cmd : i \in {j \in DOMAIN last.out : last.out[j].kind = "help"}}

\* the handlers called whose call ended in a standard exception
RaisedStd ==
    {i \in DOMAIN last.inv : last.inv[i].oc \in {"std", "bad_cast"}}

\* candidate cand has the name of command c among its words
NamesIt(cand, c) == \E i \in DOMAIN Split(cand) : Split(cand)[i] = Name(c)

\* no other command has the name of c
SoleName(c) == \A d \in Ids \ {c} : Name(d) # Name(c)

\* the commands registry reg holds, as a set
Held_in(reg) == {reg[i] : i \in DOMAIN reg}

\* the last Feed ran with cfg the current menu, root holding ping and cfg
C2_Scenario ==
    /\ Dispatched
    /\ last.cur0 = "cfg"
    /\ enabled["cfg"] /\ enabled["ping"]
    /\ "ping" \in Held_in(cmds["root"]) /\ "cfg" \in Held_in(cmds["root"])

\* the menus above menu m
RECURSIVE Ancestors(_)
Ancestors(m) ==
    IF parent[m] = None THEN {} ELSE {parent[m]} \cup Ancestors(parent[m])

\* no command of the global-scope menu and none of menu m has the name tok
NoOwnCommandNamed(m, tok) ==
    \A c \in Held_in(cmds["global"]) \cup Held_in(cmds[m]) : Name(c) # tok

\* the last line is the name of the fixed-arity command c and a number of
\* further tokens other than the number of its parameters
ArityMismatch(c) ==
    /\ Kind(c) = "fixed"
    /\ c \in TreeIds \cap alive
    /\ LastToks[1] = Name(c)
    /\ Len(LastToks) - 1 # Len(Params(c))

\* registry reg without command c, the order of the others kept
Without(reg, c) ==
    LET Keep(x) == x # c IN SelectSeq(reg, Keep)

\* the last operation was a completion that read a current menu of the tree
Completed ==
    /\ last.op = "Complete"
    /\ last.res # "fault"
    /\ ~last.ub

\* the candidates of the last completion, as a set
Candidates == {last.comp[i] : i \in DOMAIN last.comp}

\* a is the beginning of b
IsPrefix(a, b) == Len(a) <= Len(b) /\ SubSeq(b, 1, Len(a)) = a

\* line l is name, then whitespace, then the beginning of word
NameThenPrefix(l, name, word) ==
    /\ IsPrefix(name, l)
    /\ \E k \in (Len(name) + 1)..Len(l) :
          /\ \A j \in (Len(name) + 1)..k : l[j] = " "
          /\ IsPrefix(SubSeq(l, k + 1, Len(l)), word)

\* the first entry of registry reg named tok, None when there is none
FirstNamed(reg, tok) ==
    IF \E i \in DOMAIN reg : Name(reg[i]) = tok
    THEN reg[CHOOSE i \in DOMAIN reg :
                /\ Name(reg[i]) = tok
                /\ \A j \in 1..(i - 1) : Name(reg[j]) # tok]
    ELSE None

RECURSIVE ChainTarget(_, _)
\* the menu a chain of names toks leads to from menu m, each name that of
\* an enabled menu, the first entry of that name in the registry of the
\* menu before it; None when toks is no such chain
ChainTarget(m, toks) ==
    IF toks = <<>> THEN m
    ELSE IF FirstNamed(cmds[m], toks[1]) = None THEN None
    ELSE IF /\ Kind(FirstNamed(cmds[m], toks[1])) = "menu"
            /\ enabled[FirstNamed(cmds[m], toks[1])]
    THEN ChainTarget(FirstNamed(cmds[m], toks[1]), Tail(toks))
    ELSE None

\* command c is a fixed-arity command of the name and the number of
\* parameters the tokens toks call for
Fits(c, toks) ==
    /\ Kind(c) = "fixed"
    /\ toks[1] = Name(c)
    /\ Len(toks) = Len(Params(c)) + 1

\* ... and every token converts to the type of its parameter
Binds(c, toks) == Fits(c, toks) /\ Select(Params(c), Tail(toks)).ok

\* ... and some token does not
FailsToConvert(c, toks) == Fits(c, toks) /\ ~Select(Params(c), Tail(toks)).ok

\* command c, tried on the tokens toks, does not stay a non-match for sure:
\* it is enabled, of that name, and a menu, a free-form command or a
\* fixed-arity command that binds
MayTake(c, toks) ==
    /\ enabled[c]
    /\ toks[1] = Name(c)
    /\ Kind(c) = "fixed" => Binds(c, toks)

\* the last Feed called the session's help, the current menu being a menu
\* of the tree other than the root
HelpedNested ==
    /\ Dispatched
    /\ "help" \in Called(last)
    /\ parent[last.cur0] # None

\* the commands the help entries written by the last operation are of, in
\* the order written
HelpSeq ==
    LET IsHelp(l) == l.kind = "help"
        hs == SelectSeq(last.out, IsHelp)
    IN [i \in DOMAIN hs |-> hs[i].cmd]

\* the enabled commands of registry reg, in its order
EnabledOf(reg) ==
    LET On(c) == enabled[c] IN SelectSeq(reg, On)

\* the lists a and b hold the same elements
SameElements(a, b) ==
    /\ \A i \in DOMAIN a : \E j \in DOMAIN b : a[i] = b[j]
    /\ \A j \in DOMAIN b : \E i \in DOMAIN a : a[i] = b[j]

\* what the global-scope menu and the current menu gave the last completion
\* before the sort
Gathered ==
    MenuGetCompletions("global", TrimLeft(last.line))
        \o MenuGetCompletions(last.cur0, TrimLeft(last.line))

\* what the try block of Feed comes to for a session whose current menu is
\* cur
DispatchFrom(cur, toks, o) ==
    IF ScanCmds("global", toks, o).res # "false"
    THEN ScanCmds("global", toks, o)
    ELSE After(ScanCmds("global", toks, o).inv, ScanCmds(cur, toks, o))

\* a Feed taken one call at a time is under way
Trying == exec.stack # <<>>

\* ... has come to its end, and no handle was toggled since
Tried == exec.stack = <<>> /\ exec.s # 0 /\ last.op = "Feed"

\* the stack of a Feed under way: Feed below, one Menu::ScanCmds on it, and
\* on that the Exec calls, each given one token less than the one below it,
\* the first given the whole line
StackShape ==
    \A k \in DOMAIN exec.stack :
        /\ exec.stack[k].fn = "Feed" <=> k = 1
        /\ exec.stack[k].fn = "ScanCmds" <=> k = 2
        /\ exec.stack[k].fn = "Exec" =>
              /\ k >= 3
              /\ Len(exec.stack[k].toks) = Len(exec.toks) - (k - 3)
              /\ Len(exec.stack[k].toks) >= 1

\* the Exec called on the parent is that of the menu right above the
\* current menu, called from Menu::ScanCmds after the last of its commands
ParentOnce ==
    /\ exec.delegs <= 1
    /\ exec.scans <= 2
    /\ (/\ Len(exec.stack) >= 3
        /\ exec.stack[2].i > Len(cmds[exec.stack[2].c])) =>
          /\ exec.stack[2].c = exec.cur0
          /\ exec.stack[3].c = parent[exec.cur0]
          /\ exec.stack[3].toks = exec.toks

DispatchBounded ==
    /\ ExecFrames(exec.stack) <= Len(exec.toks)
    /\ exec.deep <= Len(exec.toks)
    /\ StackShape
    /\ ParentOnce
    /\ Tried =>
          Result(exec.ret, exec.exc, exec.inv, exec.cur)
              = DispatchFrom(exec.cur0, exec.toks, exec.o)

(***************************************************************************)
(* C1.  A command disabled through its handle is invisible: no Feed calls  *)
(* its handler or enters it, the help output has no entry for it, and no   *)
(* completion candidate names it ("<menu> <child>" included); Enable makes *)
(* it enabled again.  The statement as claimed: Menu::GetCompletionRecursive*)
(* does not look at the enabled flag when the line starts with the menu's  *)
(* name.                                                                   *)
(***************************************************************************)
C1_DisabledInvisible ==
    /\ \A c \in TreeIds :
          (c \in alive /\ ~enabled[c] /\ ~last.ub) =>
             /\ last.op = "Feed" =>
                   /\ c \notin Called(last)
                   /\ last.entered # c
                   /\ c \notin HelpEntries
             /\ (last.op = "Complete" /\ SoleName(c)) =>
                   \A i \in DOMAIN last.comp : ~NamesIt(last.comp[i], c)
    /\ (last.op = "Enable" /\ Lock(last.h.cmd) # None) => enabled[last.h.cmd]

(***************************************************************************)
(* C2.  Nested dispatch.  As claimed: with cfg the current menu, the line  *)
(* "ping" calls the handler of root's ping and no "wrong command" is       *)
(* written.                                                                *)
(***************************************************************************)
C2_PingResolvedFromCfg ==
    (C2_Scenario /\ LastToks = <<n_ping>>) =>
        /\ "ping" \in Called(last)
        /\ ~WroteWrongCommand

(***************************************************************************)
(* C2 as amended: with cfg the current menu (cfg holding no command named  *)
(* ping), the line "ping" calls no handler and ends in "wrong command";    *)
(* the line "cli ping", the root menu's name first, calls the handler of   *)
(* root's ping through the delegation to the parent's Exec.                *)
(***************************************************************************)
C2_PingNeedsParentName ==
    /\ (C2_Scenario /\ LastToks = <<n_ping>>) =>
          /\ last.inv = <<>>
          /\ last.res = "false"
          /\ WroteWrongCommand
          /\ current[last.s] = "cfg"
    /\ (C2_Scenario /\ LastToks = <<n_cli, n_ping>>) =>
          /\ Len(last.inv) = 1
          /\ last.inv[1].cmd = "ping"

C2_Witness ==
    /\ C2_Scenario
    /\ LastToks = <<n_ping>>
    /\ WroteWrongCommand

(***************************************************************************)
(* C3.  Delegation up the chain of ancestors.  As claimed: from a current  *)
(* menu at any depth, a line that is the name of any ancestor menu is      *)
(* matched.                                                                *)
(***************************************************************************)
C3_AnyAncestorMatched ==
    (/\ Dispatched
     /\ enabled[last.cur0]
     /\ \A a \in Ancestors(last.cur0) : enabled[a]) =>
        \A a \in Ancestors(last.cur0) :
            LastToks = <<Name(a)>> => last.res = "true" /\ ~WroteWrongCommand

(***************************************************************************)
(* C3 as amended: when neither the global-scope menu nor a child of the    *)
(* current menu has the name of the leading token, dispatch delegates one  *)
(* step only, to the Exec of the direct parent.  A line that is the direct *)
(* parent's name is matched and makes the parent current (current menu and *)
(* parent enabled); a line whose leading token is not the direct parent's  *)
(* name, the name of a more distant ancestor included, calls no handler    *)
(* and ends in "wrong command", the current menu unchanged.                *)
(***************************************************************************)
C3_OnlyParentDelegation ==
    (/\ Dispatched
     /\ parent[last.cur0] # None
     /\ NoOwnCommandNamed(last.cur0, LastToks[1])) =>
        /\ (/\ LastToks = <<Name(parent[last.cur0])>>
            /\ enabled[last.cur0]
            /\ enabled[parent[last.cur0]]) =>
               /\ last.res = "true"
               /\ last.inv = <<>>
               /\ last.entered = parent[last.cur0]
               /\ current[last.s] = parent[last.cur0]
        /\ LastToks[1] # Name(parent[last.cur0]) =>
               /\ last.res = "false"
               /\ last.inv = <<>>
               /\ WroteWrongCommand
               /\ current[last.s] = last.cur0

C3_Witness ==
    /\ Dispatched
    /\ last.cur0 = "net"
    /\ enabled["net"] /\ enabled["cfg"]
    /\ LastToks = <<n_cli>>
    /\ WroteWrongCommand
    /\ current[last.s] = "net"

(***************************************************************************)
(* C4.  Every standard exception a handler raises inside Feed reaches the  *)
(* session boundary: it is given to Cli::exceptionHandler when one is set, *)
(* or else what() is written; no "wrong command" is written and no other   *)
(* command is tried after it.  The statement as claimed: the try block of  *)
(* VariadicFunctionCommand::Exec catches the std::bad_cast of the handler. *)
(***************************************************************************)
C4_StdErrorRouted ==
    Dispatched =>
        \A i \in RaisedStd :
            /\ i = Len(last.inv)
            /\ last.res = "throw"
            /\ ~WroteWrongCommand
            /\ IF excHandler
               THEN \E k \in DOMAIN last.calls : last.calls[k] = "Cli::exceptionHandler"
               ELSE \E k \in DOMAIN last.out : last.out[k].kind = "what"

(***************************************************************************)
(* C5.  Arity mismatch.  As claimed: a Feed of the name of a fixed-arity   *)
(* command with a number of further tokens other than its arity never      *)
(* calls its handler and writes "wrong command".                           *)
(***************************************************************************)
C5_MismatchIsWrongCommand ==
    Dispatched =>
        \A c \in TreeIds :
            ArityMismatch(c) => c \notin Called(last) /\ WroteWrongCommand

(***************************************************************************)
(* C5 as amended: such a Feed, on a session whose current menu is a menu   *)
(* of the tree, never calls that command's handler; it writes "wrong       *)
(* command" unless another command takes the line: when no handler was     *)
(* called and no menu entered, "wrong command" is written.                 *)
(***************************************************************************)
C5_MismatchNeverCalls ==
    Dispatched =>
        \A c \in TreeIds :
            ArityMismatch(c) =>
                /\ c \notin Called(last)
                /\ (last.inv = <<>> /\ last.entered = None) => WroteWrongCommand

C5_Witness ==
    /\ Dispatched
    /\ ArityMismatch("setI")
    /\ enabled["setI"]
    /\ last.cur0 = "root"
    /\ Called(last) = {"setF"}
    /\ ~WroteWrongCommand

(***************************************************************************)
(* C6.  A Feed in which a handler raises, a standard exception or anything *)
(* else, writes exactly one diagnostic line and leaves the current menu as *)
(* it was; the process goes on.  The statement as claimed: the             *)
(* std::bad_cast of a handler is caught in VariadicFunctionCommand::Exec   *)
(* (see C4), and when a later command of the same name takes the line no   *)
(* diagnostic line is written at all.                                      *)
(***************************************************************************)
C6_RaisingFeedContained ==
    (Dispatched /\ \E i \in DOMAIN last.inv : last.inv[i].oc # "ok") =>
        /\ Len(last.out) = 1
        /\ last.out[1].kind \in {"what", "exception handler", "unknown exception"}
        /\ current[last.s] = last.cur0
        /\ last.entered = None
        /\ ~crashed

(***************************************************************************)
(* C7.  An enabled fixed-arity leaf of the current menu, no command of the *)
(* global-scope menu and no earlier entry of the registry having its name: *)
(* a Feed of its name and as many convertible tokens as it has parameters  *)
(* calls its handler exactly once, calls no other handler and writes no    *)
(* "wrong command".  The statement as claimed: a handler ending in         *)
(* std::bad_cast is reported as no match (see C4), and a disabled current  *)
(* menu scans none of its commands.                                        *)
(***************************************************************************)
C7_LeafCalledOnce ==
    Dispatched =>
        \A c \in TreeIds :
            (/\ Kind(c) = "fixed"
             /\ c \in alive
             /\ enabled[c]
             /\ \E i \in DOMAIN cmds[last.cur0] :
                   /\ cmds[last.cur0][i] = c
                   /\ \A j \in 1..(i - 1) : Name(cmds[last.cur0][j]) # Name(c)
             /\ \A g \in Held_in(cmds["global"]) : Name(g) # Name(c)
             /\ LastToks[1] = Name(c)
             /\ Len(LastToks) = Len(Params(c)) + 1
             /\ Select(Params(c), Tail(LastToks)).ok) =>
                /\ Len(last.inv) = 1
                /\ last.inv[1].cmd = c
                /\ ~WroteWrongCommand

(***************************************************************************)
(* C8.  Remove through a handle whose command is still held by a live      *)
(* registry erases exactly that entry, found by identity: the registry is  *)
(* what it was without that command, the order of the others kept, a       *)
(* sibling of the same name staying; no other registry and no enabled flag *)
(* changes.  A second Remove through the same handle changes nothing.      *)
(***************************************************************************)
C8_RemoveErasesThatEntry ==
    [][last'.op = "Remove" =>
         /\ (/\ last'.h.cmd # None
             /\ last'.h.cmd \in alive
             /\ last'.h.reg \in alive
             /\ last'.h.cmd \in Held_in(cmds[last'.h.reg])) =>
                /\ cmds'[last'.h.reg] = Without(cmds[last'.h.reg], last'.h.cmd)
                /\ Len(cmds'[last'.h.reg]) = Len(cmds[last'.h.reg]) - 1
                /\ \A d \in Held_in(cmds[last'.h.reg]) \ {last'.h.cmd} :
                      d \in alive'
                /\ \A m \in Menus \ {last'.h.reg} : cmds'[m] = cmds[m]
                /\ UNCHANGED <<enabled, parent>>
         /\ (last.op = "Remove" /\ last.h = last'.h) =>
                UNCHANGED <<enabled, cmds, parent, alive>>]_vars

C8_Witness ==
    /\ last.op = "Remove"
    /\ last.h = Handle("root", "setS")
    /\ cmds["root"] = <<"ping", "setI", "setF", "cfg">>
    /\ {"setI", "setF"} \subseteq alive
    /\ "setS" \notin alive

(***************************************************************************)
(* C9.  Enable, Disable and Remove through a handle whose command has been *)
(* destroyed (removed itself, or the menu holding it removed), or through  *)
(* a default-constructed handle, change nothing: no enabled flag, that of  *)
(* the destroyed command included, no registry, no command's existence.    *)
(***************************************************************************)
C9_DeadHandleNoOp ==
    [][(/\ last'.op \in {"Enable", "Disable", "Remove"}
        /\ (last'.h.cmd = None \/ last'.h.cmd \notin alive)) =>
           UNCHANGED <<enabled, cmds, parent, alive>>]_vars

C9_Witness ==
    /\ last.op \in {"Enable", "Disable"}
    /\ last.h = Handle("cfg", "net")
    /\ "cfg" \notin alive
    /\ "net" \notin alive
    /\ enabled["net"]

(***************************************************************************)
(* C10.  A Feed whose line has at least one token records the line as it   *)
(* was given as the newest entry of the session's history, once, whatever  *)
(* the dispatch comes to; the other sessions' histories stay.  A Feed      *)
(* whose line has no token records nothing, writes nothing and calls       *)
(* nothing.                                                                *)
(***************************************************************************)
C10_FeedRecordsLine ==
    [][last'.op = "Feed" =>
         IF Split(last'.line) # <<>>
         THEN /\ hist'[last'.s] =
                    IF Len(hist[last'.s]) < HistorySize
                    THEN Append(hist[last'.s], last'.line)
                    ELSE Append(Tail(hist[last'.s]), last'.line)
              /\ \A t \in Sessions \ {last'.s} : hist'[t] = hist[t]
         ELSE /\ UNCHANGED <<hist, current, storage, enabled, cmds, parent,
                             alive, crashed>>
              /\ last'.out = <<>>
              /\ last'.inv = <<>>
              /\ last'.calls = <<>>
              /\ last'.entered = None]_vars

C10_Witness ==
    /\ last.op = "Feed"
    /\ last.res = "throw"
    /\ Len(hist[last.s]) = HistorySize
    /\ hist[last.s][HistorySize] = last.line
    /\ hist[last.s][1] # last.line

(***************************************************************************)
(* C11.  Feed scans the session's global-scope menu before the current     *)
(* menu: a line that is the name of a command of the global-scope menu     *)
(* (help, exit) calls that command only, and no command of the tree is     *)
(* called or entered, the current menu holding an enabled command of that  *)
(* name and arity or not.  "wrong command" is written, once, exactly when  *)
(* the scan of the global-scope menu and then that of the current menu     *)
(* both returned false, no exception having reached Feed.                  *)
(***************************************************************************)
C11_GlobalScopeFirst ==
    Dispatched =>
        /\ \A g \in Held_in(cmds["global"]) :
              LastToks = <<Name(g)>> =>
                 /\ Len(last.inv) = 1
                 /\ last.inv[1].cmd = g
                 /\ Called(last) \cap TreeIds = {}
                 /\ last.entered = None
                 /\ current[last.s] = last.cur0
                 /\ ~WroteWrongCommand
        /\ WroteWrongCommand <=> (last.res = "false" /\ last.exc = "none")
        /\ Cardinality({i \in DOMAIN last.out :
                           last.out[i].kind = "wrong command"}) <= 1

C11_Witness ==
    /\ Dispatched
    /\ last.cur0 = "cfg"
    /\ "chelp" \in Held_in(cmds["cfg"])
    /\ enabled["chelp"] /\ enabled["cfg"]
    /\ LastToks = <<n_help>>
    /\ Called(last) = {"help"}

(***************************************************************************)
(* C12.  Exit, called by the application or by the exit command of the     *)
(* global-scope menu, calls the session's exit action first, then the exit *)
(* action of the Cli when one is set, then stores the history: the last    *)
(* call of every Exit is the store, and what is stored is the session's    *)
(* history.                                                                *)
(***************************************************************************)
C12_ExitOrder ==
    (\/ last.op = "Exit"
     \/ last.op = "Feed" /\ "exit" \in Called(last)) =>
        /\ last.calls[1] = "CliSession::exitAction"
        /\ last.calls[Len(last.calls)] = "Cli::StoreCommands"
        /\ exitAction =>
              Len(last.calls) = 3 /\ last.calls[2] = "Cli::exitAction"
        /\ ~exitAction => Len(last.calls) = 2
        /\ storage = hist[last.s]

C12_Witness ==
    /\ last.op = "Feed"
    /\ "exit" \in Called(last)
    /\ exitAction
    /\ last.calls =
          <<"CliSession::exitAction", "Cli::exitAction", "Cli::StoreCommands">>
    /\ storage = <<n_exit>>

(***************************************************************************)
(* C13.  Hierarchical completion.  M an enabled menu held by the current   *)
(* menu: a line that is a proper beginning of M's name has M's name among  *)
(* its candidates; a line that is M's name, whitespace and the beginning   *)
(* of the name of an enabled leaf L of M has "M L" among them.  A          *)
(* candidate composed under a menu's name ("M ...") is only given for a    *)
(* line that begins with that menu's name.  The line is taken as           *)
(* CliSession::GetCompletions takes it, without its leading whitespace.    *)
(***************************************************************************)
C13_HierarchicalCompletion ==
    Completed =>
        /\ \A M \in Held_in(cmds[last.cur0]) :
              (Kind(M) = "menu" /\ enabled[M]) =>
                 /\ (/\ IsPrefix(TrimLeft(last.line), Name(M))
                     /\ TrimLeft(last.line) # Name(M)) =>
                        Name(M) \in Candidates
                 /\ \A L \in Held_in(cmds[M]) :
                       (/\ Kind(L) # "menu"
                        /\ enabled[L]
                        /\ NameThenPrefix(TrimLeft(last.line), Name(M), Name(L))) =>
                           (Name(M) \o <<" ">> \o Name(L)) \in Candidates
        /\ \A cand \in Candidates :
              \A M \in Menus :
                 (Name(M) # <<>> /\ IsPrefix(Name(M) \o <<" ">>, cand)) =>
                    IsPrefix(Name(M), TrimLeft(last.line))

C13_Witness ==
    /\ Completed
    /\ last.cur0 = "cfg"
    /\ enabled["net"] /\ enabled["nshow"]
    /\ last.line = n_net \o <<" ", "s", "h">>
    /\ last.comp = << n_net \o <<" ">> \o n_show >>

(***************************************************************************)
(* C14.  History bound.  A History never holds more entries than the size  *)
(* it was constructed with; while no more lines than that have been        *)
(* recorded it holds them all, and from then on it holds exactly that many *)
(* entries: the lines recorded last, in the order they were recorded.      *)
(***************************************************************************)
C14_HistoryBound ==
    /\ Len(nav.buf) <= HistorySize
    /\ Len(nav.log) <= HistorySize => nav.buf = nav.log
    /\ Len(nav.log) > HistorySize =>
          /\ Len(nav.buf) = HistorySize
          /\ nav.buf = SubSeq(nav.log, Len(nav.log) - HistorySize + 1,
                              Len(nav.log))

C14_Witness ==
    /\ Len(nav.log) = HistorySize + 2
    /\ Len(nav.buf) = HistorySize
    /\ nav.buf[1] = nav.log[3]
    /\ nav.log[1] # nav.log[3]

(***************************************************************************)
(* C15.  Navigation is clamped.  As claimed: after N calls of Previous in  *)
(* a row from a cursor past the end, on a history of M entries, N >= M,    *)
(* what the last call returned is the oldest entry.                        *)
(***************************************************************************)
C15_PreviousReturnsOldest ==
    (nav.run /\ Len(nav.buf) >= 1 /\ nav.nprev >= Len(nav.buf)) =>
        nav.shown = nav.buf[1]

(***************************************************************************)
(* C15 as amended: the cursor is never outside the entries held.  After N  *)
(* calls of Previous in a row from a cursor past the end, on a history of  *)
(* M >= 1 entries: for N <= M the last call returned the N-th entry from   *)
(* the end, so the M-th call returns the oldest entry; for N >= M the      *)
(* cursor is on the oldest entry and stays there, and for N > M the last   *)
(* call returned the line it was given, unchanged.                         *)
(***************************************************************************)
C15_PreviousClamped ==
    /\ nav.cursor \in 0..Len(nav.buf)
    /\ (nav.run /\ Len(nav.buf) >= 1 /\ nav.nprev >= 1) =>
          /\ nav.nprev <= Len(nav.buf) =>
                /\ nav.cursor = nav.nprev
                /\ nav.shown = nav.buf[Len(nav.buf) - nav.nprev + 1]
          /\ nav.nprev >= Len(nav.buf) => nav.cursor = Len(nav.buf)
          /\ nav.nprev > Len(nav.buf) => nav.shown = nav.given

C15_Witness ==
    /\ nav.run
    /\ Len(nav.buf) = HistorySize
    /\ nav.nprev = HistorySize + 1
    /\ nav.cursor = HistorySize
    /\ nav.given # nav.buf[1]
    /\ nav.shown = nav.given

(***************************************************************************)
(* C16.  Sessions are isolated.  A Feed, an Exit or a completion on one    *)
(* session leaves the current menu and the history of every other session  *)
(* as they were, whatever the line: a scope entry, the exit command, a     *)
(* handler that raises; and a Feed, a scope entry included, changes        *)
(* nothing of the tree the sessions share.                                 *)
(***************************************************************************)
C16_SessionsIsolated ==
    [][last'.op \in {"Feed", "Exit", "Complete"} =>
         /\ \A t \in Sessions \ {last'.s} :
               /\ current'[t] = current[t]
               /\ hist'[t] = hist[t]
         /\ UNCHANGED <<enabled, cmds, parent, alive, sessions>>]_vars

C16_Witness ==
    /\ last.op = "Feed"
    /\ last.s = 2
    /\ last.entered = "cfg"
    /\ current[2] = "cfg"
    /\ current[1] = "root"
    /\ hist[1] = <<n_ping>>
    /\ hist[2] = <<n_cfg>>

C19_FirstMatchOnly ==
    Dispatched =>
        \A m \in Menus \cap alive :
            \A i, j \in DOMAIN cmds[m] :
                (/\ i < j
                 /\ Kind(cmds[m][i]) = "fixed" /\ Kind(cmds[m][j]) = "fixed"
                 /\ Name(cmds[m][i]) = Name(cmds[m][j])
                 /\ Len(Params(cmds[m][i])) = Len(Params(cmds[m][j]))
                 /\ cmds[m][j] \in Called(last)) =>
                    cmds[m][i] \notin Called(last)

(***************************************************************************)
(* C20.  Binder fall-through.  A fixed-arity command whose name and number *)
(* of parameters fit the line, one of whose tokens does not convert, is    *)
(* not called; the scan goes on with the same tokens: when a later command *)
(* of the current menu's registry is enabled and binds the line, and no    *)
(* entry before it may take the line, its handler is the one called.       *)
(***************************************************************************)
C20_BinderFallThrough ==
    Dispatched =>
        /\ \A c \in TreeIds :
              FailsToConvert(c, LastToks) => c \notin Called(last)
        /\ \A i, j \in DOMAIN cmds[last.cur0] :
              (/\ i < j
               /\ enabled[last.cur0]
               /\ \A g \in Held_in(cmds["global"]) : Name(g) # LastToks[1]
               /\ enabled[cmds[last.cur0][i]]
               /\ FailsToConvert(cmds[last.cur0][i], LastToks)
               /\ enabled[cmds[last.cur0][j]]
               /\ Binds(cmds[last.cur0][j], LastToks)
               /\ \A k \in 1..(j - 1) :
                     ~MayTake(cmds[last.cur0][k], LastToks)) =>
                  /\ Len(last.inv) >= 1
                  /\ last.inv[1].cmd = cmds[last.cur0][j]
                  /\ last.entered = None

C20_Witness ==
    /\ Dispatched
    /\ last.cur0 = "root"
    /\ LastToks = <<n_set, <<"x">> >>
    /\ enabled["setI"] /\ enabled["setS"]
    /\ "setI" \in Held_in(cmds["root"])
    /\ Called(last) = {"setS"}

(***************************************************************************)
(* C21.  Help from a nested menu.  As claimed: the help of a session whose *)
(* current menu is a nested, enabled menu has an entry for every enabled   *)
(* command of every menu above the current one, up to the root.            *)
(***************************************************************************)
C21_AncestorCommandsListed ==
    (HelpedNested /\ enabled[last.cur0]) =>
        \A a \in Ancestors(last.cur0) :
            \A c \in Held_in(cmds[a]) : enabled[c] => c \in HelpEntries

(***************************************************************************)
(* C21 as amended: the help of a session whose current menu is nested      *)
(* writes the entries of the enabled commands of the global-scope menu,    *)
(* then, the current menu being enabled, the entry of every enabled command*)
(* of the current menu in the order of its registry, then one entry, that  *)
(* of the parent menu itself when it is enabled, and nothing else: no      *)
(* command of the parent or of a menu further up has an entry unless it is *)
(* one of these.  When the current menu is disabled only the entries of    *)
(* the global-scope menu are written.                                      *)
(***************************************************************************)
C21_HelpListsChildrenAndParent ==
    HelpedNested =>
        HelpSeq = EnabledOf(cmds["global"])
                    \o (IF enabled[last.cur0]
                        THEN EnabledOf(cmds[last.cur0])
                                \o EnabledOf(<<parent[last.cur0]>>)
                        ELSE <<>>)

C21_Witness ==
    /\ HelpedNested
    /\ last.cur0 = "net"
    /\ enabled["net"] /\ enabled["cfg"] /\ enabled["root"]
    /\ "nshow" \in HelpEntries
    /\ "cfg" \in HelpEntries
    /\ "show" \notin HelpEntries

(***************************************************************************)
(* C22.  The list CliSession::GetCompletions returns is sorted and holds   *)
(* no candidate twice: each candidate is less, as a string, than the one   *)
(* after it, and the list holds what the two menus gave and nothing else.  *)
(* (A completion that reads a destroyed current menu is not one this says  *)
(* anything about.)                                                        *)
(***************************************************************************)
C22_SortedNoDuplicates ==
    Completed =>
        /\ \A i \in 1..(Len(last.comp) - 1) :
              StrLess(last.comp[i], last.comp[i + 1])
        /\ SameElements(last.comp, Gathered)

\* the two menus gave some candidate more than once, "help" being a command
\* of the global-scope menu and of cfg, "cli" one of cfg and the name of its
\* parent
C22_Witness ==
    /\ Completed
    /\ last.cur0 = "cfg"
    /\ Len(last.comp) < Len(Gathered)
    /\ Len(last.comp) > 1

(***************************************************************************)
(* C23.  The current menu of every session is a menu of the tree: none has *)
(* been destroyed.  The statement as claimed: CmdHandler::Remove erases    *)
(* the registry's shared_ptr, which destroys the menu and what it holds,   *)
(* and no session whose current menu it was is told.                       *)
(***************************************************************************)
C23_CurrentInTree ==
    \A s \in sessions : current[s] \in alive

(***************************************************************************)
(* C24.  The current menu changes only through a scope entry.  As claimed: *)
(* a Feed that ends in "wrong command", a Feed that called the handler of  *)
(* a leaf command and a Feed whose handler raised leave the session's      *)
(* current menu as it was.  The statement as claimed: a fixed-arity        *)
(* command whose handler ends in std::bad_cast is taken for a non-match    *)
(* (C4), the scan goes on, and a menu of the same name tried after it, the *)
(* parent menu included, is entered.                                       *)
(***************************************************************************)
C24_CurrentChangesOnlyOnEntry ==
    (/\ Dispatched
     /\ \/ WroteWrongCommand
        \/ last.inv # <<>>
        \/ last.res = "throw") =>
          current[last.s] = last.cur0

(***************************************************************************)
(* C25.  A disabled current menu.  While the current menu of a session is  *)
(* disabled, a Feed calls no handler but those of the global-scope menu,   *)
(* enters no menu and leaves the current menu as it was; a line that no    *)
(* command of the global-scope menu takes calls nothing at all and ends in *)
(* "wrong command", the name of the parent menu included.                  *)
(***************************************************************************)
C25_DisabledCurrentScansNothing ==
    (Dispatched /\ ~enabled[last.cur0]) =>
        /\ Called(last) \subseteq Held_in(cmds["global"])
        /\ last.entered = None
        /\ current[last.s] = last.cur0
        /\ (\A g \in Held_in(cmds["global"]) : ~MayTake(g, LastToks)) =>
              /\ last.res = "false"
              /\ last.inv = <<>>
              /\ WroteWrongCommand

\* the name of the parent menu, fed while the current menu is disabled
C25_Witness ==
    /\ Dispatched
    /\ last.cur0 = "cfg"
    /\ ~enabled["cfg"]
    /\ enabled[parent["cfg"]]
    /\ LastToks = <<Name(parent["cfg"])>>
    /\ WroteWrongCommand
    /\ current[last.s] = "cfg"

(***************************************************************************)
(* C26.  Every Feed comes to its end, its handlers returning or raising:   *)
(* a Feed under way leads to the Feed done.  All the while the Exec calls  *)
(* under way are no more than the tokens of the line, each given one token *)
(* less than its caller's; Menu::ScanCmds is called twice at most, by Feed *)
(* alone, and calls the Exec of the parent of the current menu once at     *)
(* most, with the whole line; and what the steps come to is what Feed's    *)
(* try block comes to.                                                     *)
(***************************************************************************)
C26_FeedTerminates ==
    /\ Trying ~> ~Trying
    /\ []DispatchBounded

\* "cli ping" from a submenu of cli: as many Exec calls under way as tokens,
\* the first of them the parent's
C26_Witness ==
    /\ Tried
    /\ exec.cur0 = "cfg"
    /\ Len(exec.toks) = 2
    /\ exec.deep = 2
    /\ exec.delegs = 1
    /\ exec.scans = 2
    /\ exec.ret = "true"
    /\ Called(exec) = {"ping"}







=============================================================================
